---- MODULE Spec2Model ----
(***************************************************************************)
(* Study Podcast Player (src/app.js): the chunker and the narration        *)
(* controller that feeds the chunks, one utterance at a time, to the       *)
(* browser's speechSynthesis engine.                                       *)
(*                                                                         *)
(* src/app.js holds two copies of the program; the second copy (lines 211  *)
(* to 454) is the later one and is the one modelled here.                  *)
(*                                                                         *)
(* Text is a sequence of one-character strings.  The controller and the    *)
(* engine are one record (see State); every function of the source is an   *)
(* operator from such a record to the record after the call, so that a     *)
(* handler that calls another function is the composition of the two.      *)
(***************************************************************************)
EXTENDS Integers, Sequences, FiniteSets, Bags, TLC

\* ------------------------------------------------------------------ bounds

\* clicks (play, pause, resume, stop) in one behaviour
MaxClicks == 3
\* engine faults in one behaviour: an utterance lost without an event, or a
\* cancelled utterance whose events the engine still delivers
MaxFaults == 1
\* sentences of the longest text the user pastes
MaxSentences == 2
\* the first break of a long text lies up to FloorSpread characters before or
\* after the break floor
FloorSpread == 1
\* iterations followed of a loop that makes no progress
MaxSpins == 3

\* ------------------------------------------------------- program constants

\* parseInt(els.chunkSize?.value || "1200", 10)
DefaultChunkSize == 1200
\* lastBreak > 200
BreakFloor == 200

\* --------------------------------------------------------------- characters

SP == " "
LF == "\n"
CR == "\r"
Whitespace == {SP, LF, CR}

SetMax(S) == CHOOSE x \in S : \A y \in S : y <= x
SetMin(S) == CHOOSE x \in S : \A y \in S : x <= y
MinOf(a, b) == IF a <= b THEN a ELSE b

\* ------------------------------------------------------------------ chunker

\* String.prototype.replace(/\r\n/g, "\n"): every CR that an LF follows is
\* dropped; computed on the two halves of s, the CR of a CR LF pair at the
\* middle dropped with the left half
RECURSIVE ReplaceCRLF(_)
ReplaceCRLF(s) ==
    IF Len(s) <= 1 THEN s
    ELSE LET m == Len(s) \div 2
         IN  IF s[m] = CR /\ s[m + 1] = LF
             THEN ReplaceCRLF(SubSeq(s, 1, m - 1))
                    \o ReplaceCRLF(SubSeq(s, m + 1, Len(s)))
             ELSE ReplaceCRLF(SubSeq(s, 1, m))
                    \o ReplaceCRLF(SubSeq(s, m + 1, Len(s)))

\* String.prototype.trim()
Trim(s) ==
    LET keep == {k \in 1..Len(s) : s[k] \notin Whitespace}
    IN  IF keep = {} THEN << >> ELSE SubSeq(s, SetMin(keep), SetMax(keep))

\* String.prototype.slice(i, end), 0-based, end exclusive; a negative index
\* counts from the end of the string, and both are clamped to 0..length
Slice(s, i, end) ==
    LET from == IF i < 0 THEN -MinOf(-(Len(s) + i), 0) ELSE MinOf(i, Len(s))
        to   == IF end < 0 THEN -MinOf(-(Len(s) + end), 0)
                ELSE MinOf(end, Len(s))
    IN  SubSeq(s, from + 1, to)

\* String.prototype.lastIndexOf(pat), 0-based, -1 when absent
LastIndexOf(s, pat) ==
    LET n    == Len(pat)
        hits == {j \in 0..(Len(s) - n) : SubSeq(s, j + 1, j + n) = pat}
    IN  IF hits = {} THEN -1 ELSE SetMax(hits)

\* Math.max of the four lastIndexOf results
LastBreak(slice) ==
    SetMax({ LastIndexOf(slice, <<".", SP>>),
             LastIndexOf(slice, <<"?", SP>>),
             LastIndexOf(slice, <<"!", SP>>),
             LastIndexOf(slice, <<LF>>) })

ChunkEndNoFloor(clean, maxChars, i) ==
    LET end       == MinOf(i + maxChars, Len(clean))
        lastBreak == LastBreak(Slice(clean, i, end))
    IN  IF end < Len(clean)
        THEN i + lastBreak + 1
        ELSE end

ChunkEndCutLate(clean, maxChars, i) ==
    LET end       == MinOf(i + maxChars + 1, Len(clean))
        lastBreak == LastBreak(Slice(clean, i, end))
    IN  IF end < Len(clean) /\ lastBreak > BreakFloor
        THEN i + lastBreak + 1
        ELSE end

\* one iteration's end: the hard cut, moved back to a break past BreakFloor
ChunkEnd(clean, maxChars, i) ==
    LET end       == MinOf(i + maxChars, Len(clean))
        lastBreak == LastBreak(Slice(clean, i, end))
    IN  IF end < Len(clean) /\ lastBreak > BreakFloor
        THEN i + lastBreak + 1
        ELSE end

\* the while loop of chunkText
RECURSIVE ChunkLoop(_, _, _, _)
ChunkLoop(clean, maxChars, i, chunks) ==
    IF ~(i < Len(clean)) THEN chunks
    ELSE LET end  == ChunkEnd(clean, maxChars, i)
             part == Trim(Slice(clean, i, end))
         IN  ChunkLoop(clean, maxChars, end,
                       IF part # << >> THEN Append(chunks, part) ELSE chunks)

Clean(text) == Trim(ReplaceCRLF(text))

chunkText(text, maxChars) ==
    LET clean == Clean(text)
    IN  IF clean = << >> THEN << >> ELSE ChunkLoop(clean, maxChars, 0, << >>)


\* ------------------------------------------------------------------- inputs

\* els.textInput.value: whitespace only, or n short sentences
Sentence == <<"a", "b", ".", SP>>

RECURSIVE Sentences(_)
Sentences(n) == IF n = 0 THEN << >> ELSE Sentence \o Sentences(n - 1)

Texts == {Sentences(n) : n \in 0..MaxSentences} \cup {<<SP, CR, LF, SP>>}

\* parseInt(els.chunkSize.value || "1200", 10): one sentence's length, or
\* the default
ChunkSizes == {Len(Sentence), DefaultChunkSize}

\* queue = chunkText(text, maxChars) for the texts and sizes above, computed
\* once
chunkTextOf ==
    [text \in Texts, maxChars \in ChunkSizes |-> chunkText(text, maxChars)]

\* status lines of the source (its dashes written as hyphens)
StIdle    == "Idle"
StStopped == "Stopped"
StDone    == "Done"
StPlaying == "Playing"
StQueued  == "Queued"
StPaused  == "Paused"
StError   == "TTS error - skipping chunk"
StNothing == "Nothing to play - paste text or load podcast.txt"

\* -------------------------------------------------------------------- state

VARIABLES
    queue,          \* let queue: the chunks of the session
    currentIndex,   \* let currentIndex
    isPlaying,      \* let isPlaying
    statusText,     \* els.statusText.textContent
    progressText,   \* els.progressText.textContent, as <<shown, total>>
    engQ,           \* speechSynthesis: utterances handed over and not resolved,
                    \*   each [sess, idx, started]; the head is the current one
    engPaused,      \* speechSynthesis.paused
    engEager,       \* whether this engine reports speaking from speak() on
                    \*   (TRUE) or only from the utterance's start (FALSE)
    stale,          \* utterances removed by cancel() whose events the engine
                    \*   may still deliver
    timers,         \* pending setTimeout callbacks, a bag of [kind, sess]
    session,        \* history: playFromStart calls so far
    requests,       \* history: indices handed to speak() in this session
    resolved,       \* history: onend and onerror callbacks since the last
                    \*   playFromStart
    ops,            \* clicks so far
    faults,         \* engine faults so far
    last,           \* history: the operation that led to this state
    call            \* a call of chunkText followed statement by statement:
                    \*   [pc, text, maxChars, clean, i, chunks, iter]

vars == <<queue, currentIndex, isPlaying, statusText, progressText, engQ,
          engPaused, engEager, stale, timers, session, requests, resolved, ops,
          faults, last, call>>

\* the controller and the engine as one value
State ==
    [queue |-> queue, currentIndex |-> currentIndex, isPlaying |-> isPlaying,
     statusText |-> statusText, progressText |-> progressText, engQ |-> engQ,
     engPaused |-> engPaused, engEager |-> engEager, stale |-> stale,
     timers |-> timers, session |-> session, requests |-> requests,
     resolved |-> resolved]

\* the next state is s
Becomes(s) ==
    /\ queue' = s.queue
    /\ currentIndex' = s.currentIndex
    /\ isPlaying' = s.isPlaying
    /\ statusText' = s.statusText
    /\ progressText' = s.progressText
    /\ engQ' = s.engQ
    /\ engPaused' = s.engPaused
    /\ engEager' = s.engEager
    /\ stale' = s.stale
    /\ timers' = s.timers
    /\ session' = s.session
    /\ requests' = s.requests
    /\ resolved' = s.resolved
    /\ UNCHANGED call

Range(f) == {f[k] : k \in DOMAIN f}

\* --------------------------------------------------------- the speech engine

\* speechSynthesis.speaking
EngSpeaking(s) ==
    s.engQ # << >> /\ (s.engEager \/ Head(s.engQ).started)

\* speechSynthesis.cancel(): empties the engine's queue and leaves the paused
\* flag as it is; the removed utterances' events may still arrive
EngCancel(s) ==
    [s EXCEPT !.engQ = << >>, !.stale = @ \cup Range(s.engQ)]

\* speechSynthesis.speak(utter)
EngSpeak(s, u) ==
    [s EXCEPT !.engQ = Append(@, u), !.requests = Append(@, u.idx)]

\* speechSynthesis.pause()
EngPause(s) == [s EXCEPT !.engPaused = TRUE]

\* speechSynthesis.resume()
EngResume(s) == [s EXCEPT !.engPaused = FALSE]

\* setTimeout(f, ms)
SetTimeout(s, kind, sess) ==
    [s EXCEPT !.timers = @ (+) SetToBag({[kind |-> kind, sess |-> sess]})]

\* ------------------------------------------------------------ the controller

setStatus(s, msg) == [s EXCEPT !.statusText = msg]

setProgress(s) ==
    [s EXCEPT !.progressText =
        <<MinOf(s.currentIndex, Len(s.queue)), Len(s.queue)>>]

stopAllKeepIndex(s) ==
    LET s1 == EngCancel(s)
        s2 == [s1 EXCEPT !.isPlaying = FALSE, !.queue = << >>]
    IN  setProgress(setStatus(s2, StStopped))

stopAll(s) ==
    LET s1 == EngCancel(s)
        s2 == [s1 EXCEPT !.isPlaying = FALSE, !.queue = << >>,
                         !.currentIndex = 0]
    IN  setProgress(setStatus(s2, StStopped))

speakNextTeardown(s) ==
    IF ~s.isPlaying THEN s
    ELSE IF s.engPaused THEN s
    ELSE IF s.currentIndex >= Len(s.queue)
         THEN setProgress(setStatus([s EXCEPT !.isPlaying = FALSE,
                                              !.queue = << >>,
                                              !.currentIndex = 0], StDone))
         ELSE EngSpeak(s, [sess |-> s.session, idx |-> s.currentIndex,
                           started |-> FALSE])

speakNext(s) ==
    IF ~s.isPlaying THEN s
    ELSE IF s.engPaused THEN s
    ELSE IF s.currentIndex >= Len(s.queue)
         THEN setProgress(setStatus([s EXCEPT !.isPlaying = FALSE], StDone))
         ELSE EngSpeak(s, [sess |-> s.session, idx |-> s.currentIndex,
                           started |-> FALSE])

\* utter.onstart
onstart(s) == setProgress(setStatus(s, StPlaying))

\* utter.onend of utterance u
onend(s, u) ==
    LET s1 == [s EXCEPT !.currentIndex = @ + 1, !.resolved = @ + 1]
    IN  SetTimeout(setProgress(s1), "speakNext", u.sess)

onerrorRetry(s, u) ==
    LET s1 == [s EXCEPT !.resolved = @ + 1]
    IN  SetTimeout(setStatus(s1, StError), "speakNext", u.sess)

\* utter.onerror of utterance u
onerror(s, u) ==
    LET s1 == [s EXCEPT !.currentIndex = @ + 1, !.resolved = @ + 1]
    IN  SetTimeout(setStatus(s1, StError), "speakNext", u.sess)

playFromStartNoEmptyCheck(s, text, maxChars) ==
    LET s1 == EngCancel(s)
        s2 == [s1 EXCEPT !.queue = chunkTextOf[text, maxChars],
                         !.currentIndex = 0,
                         !.session = @ + 1, !.requests = << >>, !.resolved = 0]
    IN  speakNext(setProgress(setStatus([s2 EXCEPT !.isPlaying = TRUE],
                                        StQueued)))

playFromStart(s, text, maxChars) ==
    LET s1 == EngCancel(s)
        s2 == [s1 EXCEPT !.queue = chunkTextOf[text, maxChars],
                         !.currentIndex = 0,
                         !.session = @ + 1, !.requests = << >>, !.resolved = 0]
    IN  IF Len(s2.queue) = 0
        THEN setProgress(setStatus([s2 EXCEPT !.isPlaying = FALSE], StNothing))
        ELSE speakNext(setProgress(setStatus([s2 EXCEPT !.isPlaying = TRUE],
                                             StQueued)))

pause(s) ==
    IF EngSpeaking(s) /\ ~s.engPaused
    THEN setStatus(EngPause(s), StPaused)
    ELSE s

resumeCheckNoSpeakingTest(s) ==
    IF s.isPlaying /\ ~s.engPaused THEN speakNext(s) ELSE s

\* the callback resume() hands to setTimeout(..., 200)
resumeCheck(s) ==
    IF s.isPlaying /\ ~EngSpeaking(s) /\ ~s.engPaused THEN speakNext(s) ELSE s

resume(s) ==
    IF s.engPaused
    THEN SetTimeout(setStatus(EngResume(s), StPlaying), "resumeCheck",
                    s.session)
    ELSE IF s.isPlaying /\ ~EngSpeaking(s) THEN speakNext(s) ELSE s

\* ------------------------------------------------------------------ actions

\* the record of the operation op that leads to the next state: the session
\* and index of the utterance or timer it is about (the current ones for a
\* click), whether that utterance had been cancelled, the text played, and
\* what held before the operation: the status line, the engine's paused flag
\* and the number of utterances the engine held
Did(op, sess, idx, isStale, text) ==
    last' = [op |-> op, sess |-> sess, idx |-> idx, stale |-> isStale,
             text |-> text, from |-> statusText, paused |-> engPaused,
             out |-> Len(engQ)]

\* no call of chunkText is being followed
NoCall ==
    [pc |-> "none", text |-> << >>, maxChars |-> 0, clean |-> << >>, i |-> 0,
     chunks |-> << >>, iter |-> 0]

\* the page as loaded
PageLoaded ==
    /\ queue = << >>
    /\ currentIndex = 0
    /\ isPlaying = FALSE
    /\ statusText = StIdle
    /\ progressText = <<0, 0>>
    /\ engQ = << >>
    /\ engPaused = FALSE
    /\ engEager \in BOOLEAN
    /\ stale = {}
    /\ timers = EmptyBag
    /\ session = 0
    /\ requests = << >>
    /\ resolved = 0
    /\ ops = 0
    /\ faults = 0
    /\ last = [op |-> "init", sess |-> 0, idx |-> 0, stale |-> FALSE,
               text |-> << >>, from |-> StIdle, paused |-> FALSE, out |-> 0]

Init == PageLoaded /\ call = NoCall

\* After a handler that called cancel(): of the utterances it removed, the
\* engine will deliver late events for those in late, and for no other
LateSets(s) ==
    {late \in SUBSET (s.stale \ stale) :
        faults + Cardinality(late) <= MaxFaults}

Cancelled(s, late) ==
    /\ Becomes([s EXCEPT !.stale = stale \cup late])
    /\ faults' = faults + Cardinality(late)

\* els.playBtn click
PlayFromStart ==
    /\ ops < MaxClicks
    /\ \E text \in Texts, maxChars \in ChunkSizes :
          LET s == playFromStart(State, text, maxChars)
          IN  /\ \E late \in LateSets(s) : Cancelled(s, late)
              /\ Did("playFromStart", session + 1, 0, FALSE, text)
    /\ ops' = ops + 1

\* els.pauseBtn click
Pause ==
    /\ ops < MaxClicks
    /\ Becomes(pause(State))
    /\ Did("pause", session, currentIndex, FALSE, << >>)
    /\ ops' = ops + 1
    /\ UNCHANGED faults

\* els.resumeBtn click
Resume ==
    /\ ops < MaxClicks
    /\ Becomes(resume(State))
    /\ Did("resume", session, currentIndex, FALSE, << >>)
    /\ ops' = ops + 1
    /\ UNCHANGED faults

\* els.stopBtn click
Stop ==
    /\ ops < MaxClicks
    /\ LET s == stopAll(State)
       IN  \E late \in LateSets(s) : Cancelled(s, late)
    /\ Did("stop", session, currentIndex, FALSE, << >>)
    /\ ops' = ops + 1

\* a setTimeout callback runs: speakNext (after onend, onerror) or the
\* check that resume() scheduled
TimerFire ==
    \E t \in BagToSet(timers) :
        LET s == [State EXCEPT !.timers = @ (-) SetToBag({t})]
        IN  /\ Becomes(IF t.kind = "speakNext" THEN speakNext(s)
                                               ELSE resumeCheck(s))
            /\ Did(t.kind, t.sess, currentIndex, FALSE, << >>)
            /\ UNCHANGED <<ops, faults>>

\* the engine begins to speak the utterance at the head of its queue
UtterStart ==
    /\ engQ # << >>
    /\ ~engPaused
    /\ ~Head(engQ).started
    /\ LET u == Head(engQ)
           s == [State EXCEPT !.engQ[1].started = TRUE]
       IN  /\ Becomes(onstart(s))
           /\ Did("onstart", u.sess, u.idx, FALSE, << >>)
    /\ UNCHANGED <<ops, faults>>

\* the engine finishes the utterance it is speaking
UtterEnd ==
    /\ engQ # << >>
    /\ ~engPaused
    /\ Head(engQ).started
    /\ LET u == Head(engQ)
           s == [State EXCEPT !.engQ = Tail(@)]
       IN  /\ Becomes(onend(s, u))
           /\ Did("onend", u.sess, u.idx, FALSE, << >>)
    /\ UNCHANGED <<ops, faults>>

\* the engine fails on the utterance at the head of its queue
UtterError ==
    /\ engQ # << >>
    /\ LET u == Head(engQ)
           s == [State EXCEPT !.engQ = Tail(@)]
       IN  /\ Becomes(onerror(s, u))
           /\ Did("onerror", u.sess, u.idx, FALSE, << >>)
    /\ UNCHANGED <<ops, faults>>

\* the engine loses the utterance at the head of its queue and fires no
\* event (the stall that resume() is written for)
EngineStall ==
    /\ faults < MaxFaults
    /\ engQ # << >>
    /\ Becomes([State EXCEPT !.engQ = Tail(@)])
    /\ Did("stall", Head(engQ).sess, Head(engQ).idx, FALSE, << >>)
    /\ faults' = faults + 1
    /\ UNCHANGED ops

\* an event of an utterance that cancel() had removed arrives late
StaleStart ==
    \E u \in stale :
        /\ ~u.started
        /\ LET s == [State EXCEPT !.stale = @ \ {u}]
           IN  /\ Becomes(onstart(s))
               /\ Did("onstart", u.sess, u.idx, TRUE, << >>)
        /\ UNCHANGED <<ops, faults>>

StaleEnd ==
    \E u \in stale :
        /\ u.started
        /\ LET s == [State EXCEPT !.stale = @ \ {u}]
           IN  /\ Becomes(onend(s, u))
               /\ Did("onend", u.sess, u.idx, TRUE, << >>)
        /\ UNCHANGED <<ops, faults>>

StaleError ==
    \E u \in stale :
        /\ LET s == [State EXCEPT !.stale = @ \ {u}]
           IN  /\ Becomes(onerror(s, u))
               /\ Did("onerror", u.sess, u.idx, TRUE, << >>)
        /\ UNCHANGED <<ops, faults>>

Next ==
    \/ PlayFromStart
    \/ Pause
    \/ Resume
    \/ Stop
    \/ TimerFire
    \/ UtterStart
    \/ UtterEnd
    \/ UtterError
    \/ EngineStall
    \/ StaleStart
    \/ StaleEnd
    \/ StaleError

Spec == Init /\ [][Next]_vars

\* An engine that fails every utterance, and a user who presses play only
\* when nothing of an earlier session is pending and touches nothing else.
PlayFromStartIdle ==
    /\ engQ = << >>
    /\ timers = EmptyBag
    /\ stale = {}
    /\ ~isPlaying
    /\ PlayFromStart

NextFail ==
    \/ PlayFromStartIdle
    \/ UtterStart
    \/ UtterError
    \/ TimerFire

SpecFail == Init /\ [][NextFail]_vars

\* One session left to run: a single playFromStart, no stop(), an engine that
\* resolves every request and drops none, every deferred tick fires, and
\* every pause() is followed by a resume()
PlayOnce == session = 0 /\ PlayFromStart

\* a pause() click that leaves a click for the resume() after it
PauseThenResume == ops + 1 < MaxClicks /\ ~engPaused /\ Pause

\* the resume() click that follows a pause()
ResumePaused == engPaused /\ Resume

NextLive ==
    \/ PlayOnce
    \/ PauseThenResume
    \/ Resume
    \/ TimerFire
    \/ UtterStart
    \/ UtterEnd
    \/ UtterError

SpecLive ==
    /\ Init
    /\ [][NextLive]_vars
    /\ WF_vars(TimerFire)
    /\ WF_vars(UtterStart)
    /\ WF_vars(UtterEnd \/ UtterError)
    /\ WF_vars(ResumePaused)

\* ------------------------------------------------- chunkText, step by step

Rep(c, n) == [k \in 1..n |-> c]

\* sentence breaks and line breaks of a text as typed
Breaks == {<<".", SP>>, <<"?", SP>>, <<"!", SP>>, <<LF>>, <<CR, LF>>}

\* a run of n letters, a break, and a tail that reaches past the hard cut
LongTexts ==
    {Rep("a", n) \o brk \o Rep("b", 2 * FloorSpread + 20) :
        n \in (BreakFloor - FloorSpread)..(BreakFloor + FloorSpread + 1),
        brk \in Breaks}

\* the texts chunkText is followed on: the short ones of the page, one with
\* white space around it and inside it, and the long ones
ChunkTexts ==
    Texts \cup {<<SP, "a", CR, LF, SP, "b", "c", LF>>} \cup LongTexts

\* maxChars: non-positive, tiny, a sentence, below and above the break floor,
\* and the default
ChunkMaxes ==
    {0 - 1, 0, 1, Len(Sentence) - 1, Len(Sentence), BreakFloor \div 2,
     BreakFloor + FloorSpread + 10, DefaultChunkSize}

InitChunk ==
    /\ PageLoaded
    /\ engEager
    /\ call \in {[pc |-> "call", text |-> text, maxChars |-> maxChars,
                   clean |-> << >>, i |-> 0, chunks |-> << >>, iter |-> 0] :
                     text \in ChunkTexts, maxChars \in ChunkMaxes}

page == <<queue, currentIndex, isPlaying, statusText, progressText, engQ,
          engPaused, engEager, stale, timers, session, requests, resolved, ops,
          faults, last>>

\* const clean = ...; if (!clean) return []; const chunks = []; let i = 0
ChunkNormalize ==
    /\ call.pc = "call"
    /\ LET clean == Clean(call.text)
       IN  call' = [call EXCEPT !.clean = clean,
                                !.pc = IF clean = << >> THEN "return"
                                       ELSE "loop"]
    /\ UNCHANGED page

ChunkIterateSkipsBreak ==
    /\ call.pc = "loop"
    /\ call.i < Len(call.clean)
    /\ call.maxChars > 0 \/ call.iter < MaxSpins
    /\ LET end  == ChunkEnd(call.clean, call.maxChars, call.i)
           part == Trim(Slice(call.clean, call.i, end))
       IN  call' = [call EXCEPT !.chunks = IF part # << >>
                                           THEN Append(@, part) ELSE @,
                                !.i = end + 1,
                                !.iter = @ + 1]
    /\ UNCHANGED page

\* one iteration of while (i < clean.length)
ChunkIterate ==
    /\ call.pc = "loop"
    /\ call.i < Len(call.clean)
    /\ call.maxChars > 0 \/ call.iter < MaxSpins
    /\ LET end  == ChunkEnd(call.clean, call.maxChars, call.i)
           part == Trim(Slice(call.clean, call.i, end))
       IN  call' = [call EXCEPT !.chunks = IF part # << >>
                                           THEN Append(@, part) ELSE @,
                                !.i = end,
                                !.iter = @ + 1]
    /\ UNCHANGED page

\* the loop condition fails: return chunks
ChunkReturn ==
    /\ call.pc = "loop"
    /\ ~(call.i < Len(call.clean))
    /\ call' = [call EXCEPT !.pc = "return"]
    /\ UNCHANGED page

NextChunk == ChunkNormalize \/ ChunkIterate \/ ChunkReturn

SpecChunk == InitChunk /\ [][NextChunk]_vars

\* ------------------------------------------------------------------- claims

IsBlank(text) == \A k \in 1..Len(text) : text[k] \in Whitespace

Outstanding == Len(engQ)

\* the engine at its best: it reports speaking from speak() on, loses no
\* utterance and delivers nothing after cancel()
WellBehaved == engEager /\ faults = 0

\* C1: at most one narration request is outstanding at the engine in every
\* reachable state.  Stated for the runs with the engine at its best.
AtMostOneInFlight ==
    WellBehaved => Outstanding <= 1

\* C2: 0 <= currentIndex <= queue.length in every reachable state.  Stated
\* for the runs with the engine at its best.
CursorBound ==
    WellBehaved => (0 <= currentIndex /\ currentIndex <= Len(queue))

\* C3: after playFromStart the engine holds requests of the new session only,
\* and no onend / onerror callback or deferred speakNext tick of an earlier
\* session changes the cursor or hands the engine a request.  Stated for the
\* runs with the engine at its best.
OldSessionIsolated ==
    /\ [](WellBehaved => \A k \in 1..Len(engQ) : engQ[k].sess = session)
    /\ [][ (/\ WellBehaved
            /\ last'.op \in {"onend", "onerror", "speakNext"}
            /\ last'.sess # session')
           => (currentIndex' = currentIndex /\ engQ' = engQ) ]_vars

\* C4: with an engine that fails every segment, the session is Done after
\* exactly queue.length failure callbacks, the indices handed to the engine
\* are 0, 1, ..., each once, never two requests are outstanding, and the
\* session never stands still before Done.
FailingEngineReachesDone ==
    /\ Outstanding <= 1
    /\ \A i, j \in 1..Len(requests) : i # j => requests[i] # requests[j]
    /\ resolved <= Len(queue)
    /\ isPlaying => (engQ # << >> \/ timers # EmptyBag)
    /\ statusText = StDone =>
          /\ resolved = Len(queue)
          /\ requests = [k \in 1..Len(queue) |-> k - 1]
          /\ ~isPlaying

FailingEngineDoneReached ==
    /\ statusText = StDone
    /\ Len(queue) = MaxSentences
    /\ resolved = MaxSentences
    /\ last.op = "speakNext"

\* C5: right after stop(), from whatever state, the engine holds nothing, the
\* queue is empty, the cursor is 0, the status is Stopped and the progress
\* shown is 0 / 0.
StopResets ==
    last.op = "stop" =>
        /\ engQ = << >>
        /\ queue = << >>
        /\ currentIndex = 0
        /\ ~isPlaying
        /\ statusText = StStopped
        /\ progressText = <<0, 0>>

StopWhilePaused ==
    /\ last.op = "stop"
    /\ last.from = StPaused
    /\ last.paused
    /\ last.out > 0
    /\ last.idx > 0

\* C6: a callback of a request that stop() or a new playFromStart cancelled
\* changes neither the cursor, the status, the playing flag nor the queue, and
\* schedules and issues nothing.
StaleCallbackIgnored ==
    [][ last'.stale =>
          /\ currentIndex' = currentIndex
          /\ statusText' = statusText
          /\ isPlaying' = isPlaying
          /\ queue' = queue
          /\ timers' = timers
          /\ engQ' = engQ ]_vars

\* C7: while the status is Idle, Stopped or Done no request is outstanding at
\* the engine.  Stated for the runs with the engine at its best.
QuietWhenNotPlaying ==
    (WellBehaved /\ statusText \in {StIdle, StStopped, StDone})
        => Outstanding = 0

\* C8: a playFromStart that yields a segment hands segment 0 to the engine
\* within the call, whatever the engine's flags were; and while the
\* controller is playing (and the engine is at its best) a request is
\* outstanding or a deferred callback is pending.
PlayIssuesFirstRequest ==
    /\ (last.op = "playFromStart" /\ queue # << >>) =>
          engQ = <<[sess |-> session, idx |-> 0, started |-> FALSE]>>
    /\ (WellBehaved /\ isPlaying) => (engQ # << >> \/ timers # EmptyBag)

\* C9: the progress shown is (min(currentIndex, queue.length), queue.length)
\* in every reachable state.  Stated for the runs with the engine at its
\* best.
ProgressClamped ==
    WellBehaved =>
        progressText = <<MinOf(currentIndex, Len(queue)), Len(queue)>>

\* C10: right after playFromStart on empty or whitespace-only text the engine
\* holds nothing and was handed nothing, the queue is empty, the controller is
\* not playing, the cursor is 0, and the status is the nothing-to-play line
\* (not Queued).
EmptyPlayStaysIdle ==
    (last.op = "playFromStart" /\ IsBlank(last.text)) =>
        /\ queue = << >>
        /\ engQ = << >>
        /\ requests = << >>
        /\ ~isPlaying
        /\ currentIndex = 0
        /\ statusText = StNothing
        /\ progressText = <<0, 0>>

EmptyPlayWhilePlaying ==
    /\ last.op = "playFromStart"
    /\ last.text = <<SP, CR, LF, SP>>
    /\ last.from = StPlaying
    /\ last.out > 0


\* C11 as stated: once the session has completed naturally (status "Done") the
\* segment queue is empty and the cursor is 0, as after stop()
DoneTornDown ==
    (WellBehaved /\ statusText = StDone) => (queue = << >> /\ currentIndex = 0)

\* C11: the step that declares natural completion (playing mode left with
\* status "Done") keeps the segment queue and the cursor as they are: the
\* queue is non-empty, the cursor is at or past its end, and the progress
\* display reads N / N; only stop() or the next playFromStart replaces them
DoneKeepsQueue ==
    [][(isPlaying /\ ~isPlaying' /\ statusText' = StDone)
          => /\ queue' = queue
             /\ currentIndex' = currentIndex
             /\ queue # << >>
             /\ currentIndex >= Len(queue)
             /\ progressText' = <<Len(queue), Len(queue)>>]_vars

\* a two-segment session that completed naturally from the deferred tick
DoneAfterLastSegment ==
    /\ statusText = StDone
    /\ last.op = "speakNext"
    /\ ~isPlaying
    /\ Len(queue) = 2
    /\ currentIndex = 2


\* the request for the segment under the cursor joins the engine's queue
Issues ==
    engQ' = Append(engQ, [sess |-> session, idx |-> currentIndex,
                          started |-> FALSE])

\* the controller is playing and the engine reports neither speaking nor paused
Stalled == isPlaying /\ ~EngSpeaking(State) /\ ~engPaused

\* C12 as stated: resume() while the engine reports paused resumes the engine
\* and schedules exactly one delayed check; the check re-issues the current
\* segment exactly when the controller is playing and the engine reports
\* neither speaking nor paused, and otherwise issues nothing
ResumeCheckReissuesIffStalled ==
    /\ [][(last'.op = "resume" /\ engPaused)
             => /\ ~engPaused'
                /\ timers' = timers (+) SetToBag({[kind |-> "resumeCheck",
                                                   sess |-> session]})
                /\ engQ' = engQ]_vars
    /\ [][(WellBehaved /\ last'.op = "resumeCheck")
             => /\ Stalled => Issues
                /\ ~Stalled => engQ' = engQ]_vars

\* C12: resume() while the engine reports paused resumes the engine, sets the
\* status to Playing and schedules exactly one delayed check, issuing nothing
\* itself; when the check fires with the controller playing and the engine
\* neither speaking nor paused it re-issues the segment under the cursor if
\* there is one and declares Done if the cursor is past the last segment; in
\* every other case the check changes nothing
ResumeCheckReissuesOrCompletes ==
    /\ [][(last'.op = "resume" /\ engPaused)
             => /\ ~engPaused'
                /\ statusText' = StPlaying
                /\ timers' = timers (+) SetToBag({[kind |-> "resumeCheck",
                                                   sess |-> session]})
                /\ engQ' = engQ
                /\ currentIndex' = currentIndex
                /\ queue' = queue
                /\ isPlaying' = isPlaying]_vars
    /\ [][last'.op = "resumeCheck"
             => /\ (Stalled /\ currentIndex < Len(queue))
                      => (Issues /\ isPlaying' /\ statusText' = statusText)
                /\ (Stalled /\ currentIndex >= Len(queue))
                      => (engQ' = engQ /\ ~isPlaying' /\ statusText' = StDone)
                /\ ~Stalled
                      => (engQ' = engQ /\ isPlaying' = isPlaying
                          /\ statusText' = statusText)
                /\ currentIndex' = currentIndex
                /\ queue' = queue]_vars

\* the delayed check of a resume() found the engine idle and re-issued the
\* segment under the cursor
ResumeCheckReissued ==
    /\ last.op = "resumeCheck"
    /\ Len(engQ) = last.out + 1
    /\ engQ[Len(engQ)].idx = currentIndex
    /\ isPlaying


\* C13: resume() while the engine does not report paused issues a request only
\* on a genuine stall: the controller is playing, the engine is not speaking,
\* and neither a request nor a deferred issue-next tick is pending; in every
\* other case it issues nothing; in all cases it leaves cursor and queue as
\* they are
ResumeReissuesOnlyOnStall ==
    [][(WellBehaved /\ last'.op = "resume" /\ ~engPaused)
          => /\ engQ' # engQ
                  => /\ isPlaying
                     /\ ~EngSpeaking(State)
                     /\ engQ = << >>
                     /\ timers = EmptyBag
             /\ currentIndex' = currentIndex
             /\ queue' = queue]_vars


\* concatenation of the chunks, in order
RECURSIVE Join(_)
Join(chunks) ==
    IF chunks = << >> THEN << >>
    ELSE IF Len(chunks) = 1 THEN chunks[1]
    ELSE LET m == Len(chunks) \div 2
         IN  Join(SubSeq(chunks, 1, m)) \o Join(SubSeq(chunks, m + 1, Len(chunks)))

\* C14: for a positive maxChars, every chunk pushed so far has length at most
\* maxChars, or is the last chunk and ends exactly at the end of the
\* normalized input
ChunkLengthBound ==
    call.maxChars > 0
      => \A k \in 1..Len(call.chunks) :
            \/ Len(call.chunks[k]) <= call.maxChars
            \/ k = Len(call.chunks) /\ call.i = Len(call.clean)

\* a long text was cut at a sentence break past the break floor, before the
\* hard cut, and the call returned two chunks
ChunkCutAtBreak ==
    /\ call.pc = "return"
    /\ call.maxChars = BreakFloor + FloorSpread + 10
    /\ Len(call.chunks) = 2
    /\ Len(call.chunks[1]) = BreakFloor + 2
    /\ call.chunks = chunkText(call.text, call.maxChars)


\* C15: a call of chunkText with maxChars <= 0 on a text that is not blank
\* fails at once with InvalidArgument: it never enters the loop, runs no
\* iteration and returns no chunk list
NonPositiveMaxCharsRejected ==
    (call.pc # "none" /\ call.maxChars <= 0 /\ ~IsBlank(call.text))
      => (call.pc \in {"call", "throw"} /\ call.iter = 0)


NotWhite(c) == c \notin Whitespace

\* a call of chunkText with a positive maxChars has returned
Returned == call.pc = "return" /\ call.maxChars > 0

\* c occurs in s as a run of consecutive characters
OccursIn(c, s) ==
    \E j \in 0..(Len(s) - Len(c)) : SubSeq(s, j + 1, j + Len(c)) = c

\* C16 as stated: the chunks, concatenated in order, are the normalized and
\* trimmed source text
ChunksRebuildText ==
    Returned => Join(call.chunks) = call.clean

\* C16: the chunks, concatenated in order, are the normalized and trimmed
\* source text with the white space at the cut points removed: each chunk is a
\* run of consecutive characters of that text with no white space at either
\* end, and the characters that are not white space are those of the text, in
\* order, none dropped and none duplicated
ChunksRebuildTextButWhitespace ==
    Returned
      => /\ SelectSeq(Join(call.chunks), NotWhite)
              = SelectSeq(call.clean, NotWhite)
         /\ \A k \in 1..Len(call.chunks) :
               /\ OccursIn(call.chunks[k], call.clean)
               /\ call.chunks[k] # << >>
               /\ Trim(call.chunks[k]) = call.chunks[k]

\* a text was cut where a space stood, and that space is in no chunk
CutDroppedWhitespace ==
    /\ Returned
    /\ Len(call.chunks) = 2
    /\ Len(Join(call.chunks)) = Len(call.clean) - 1


\* C19: for a positive maxChars every iteration of the loop of chunkText ends
\* with i strictly greater than before and at most the length of the
\* normalized text, so the loop runs at most that many iterations and the call
\* returns
ChunkLoopAdvances ==
    [][(call.pc = "loop" /\ call'.pc = "loop" /\ call.maxChars > 0)
          => /\ call.i < call'.i
             /\ call'.i <= Len(call.clean)
             /\ call'.iter = call.iter + 1
             /\ call'.iter <= Len(call.clean)]_vars

\* an iteration ended at a break point past the break floor, short of the hard
\* cut, and the loop goes on behind it
ChunkLoopPastBreak ==
    /\ call.pc = "loop"
    /\ call.iter = 1
    /\ call.i > BreakFloor + 1
    /\ call.i < call.maxChars
    /\ call.i < Len(call.clean)


\* C17: within one session the segments are handed to the engine left to
\* right and none is skipped: the first request is for index 0, each later
\* request is for the index of the one before (a re-issue) or the next index,
\* and Done is reached only when every index 0..N-1 has been requested
InOrderNoSkip ==
    WellBehaved
      => /\ requests # << >> => requests[1] = 0
         /\ \A k \in 1..(Len(requests) - 1) :
               requests[k + 1] \in {requests[k], requests[k] + 1}
         /\ statusText = StDone
               => \A idx \in 0..(Len(queue) - 1) : idx \in Range(requests)


\* C18: in a session of N >= 1 segments that nobody stops or restarts, with an
\* engine that resolves every request, every deferred tick firing and every
\* pause() followed by a resume(), the controller eventually reaches Done
\* with the cursor at N
SessionReachesDoneAtN ==
    (WellBehaved /\ last.op = "playFromStart" /\ queue # << >>)
      ~> (statusText = StDone /\ ~isPlaying /\ currentIndex = Len(queue))


\* the controller leaves playing mode only by stop(), by a new playFromStart,
\* or with the cursor at or past the end of the queue
LeavesPlayingOnlyAtEnd ==
    (isPlaying /\ ~isPlaying')
      => (last'.op \in {"stop", "playFromStart"} \/ currentIndex >= Len(queue))

\* C20: when onerror fires for the utterance of segment k, with k + 1 < N, the
\* cursor becomes k + 1, the controller stays in the mode it is in, issues
\* nothing itself and leaves the next request to a deferred tick, which issues
\* the request for the segment under the cursor; and the controller leaves
\* playing mode only by stop(), a new playFromStart, or the cursor reaching N
ErrorSkipsToNext ==
    [][WellBehaved
         => /\ (last'.op = "onerror" /\ last'.idx + 1 < Len(queue))
                 => /\ currentIndex' = last'.idx + 1
                    /\ isPlaying' = isPlaying
                    /\ queue' = queue
                    /\ requests' = requests
                    /\ timers' = timers (+) SetToBag({[kind |-> "speakNext",
                                                       sess |-> last'.sess]})
            /\ (last'.op = "speakNext" /\ engQ' # engQ) => Issues
            /\ LeavesPlayingOnlyAtEnd]_vars

====
